---- MODULE Spec2Model ----
(***************************************************************************)
(* Model of the two scripts of rs-cfg2hcl:                                 *)
(*   scripts/update_discovery_config.py  (load_schemas, update_config,     *)
(*                                        main)                            *)
(*   scripts/inspect_schema.py           (module body)                     *)
(* JSON and YAML values are records tagged by `kind'; a mapping keeps its  *)
(* items as a sequence of <<key, value>> pairs in insertion order.         *)
(***************************************************************************)
EXTENDS Integers, Sequences, FiniteSets, TLC

VARIABLES
    schema_dir,     \* the schema directory: [exists, files]
    config_file,    \* the configuration file: [exists, text]
    pc,             \* position of main(): "load", "update", "done", "crashed"
    run,            \* number of the current invocation of main()
    resources,      \* main: resources, the set load_schemas returned
    loaded,         \* update_config: the document as yaml.load returned it
    config,         \* update_config: the document after the merge loop
    added_count,    \* update_config: added_count
    writes,         \* number of times config_path was opened for writing
    raised,         \* exception that left update_config, or "none"
    out,            \* lines printed by the updater
    insp_file,      \* inspector: the file at sys.argv[1]
    insp_pc,        \* inspector: "start", "done", "crashed"
    insp_schemas,   \* inspector: schemas when "Found N resources." is printed
    insp_out,       \* inspector: lines printed
    insp_writes     \* inspector: number of files opened for writing

vars == <<schema_dir, config_file, pc, run, resources, loaded, config,
          added_count, writes, raised, out,
          insp_file, insp_pc, insp_schemas, insp_out, insp_writes>>

updater_vars == <<schema_dir, config_file, pc, run, resources, loaded, config,
                  added_count, writes, raised, out>>

inspector_vars == <<insp_file, insp_pc, insp_schemas, insp_out, insp_writes>>

(***************************************************************************)
(* Bounds of the model.                                                    *)
(***************************************************************************)
MaxFiles == 2

MaxProviders == 2

MaxPre == 2

MaxRuns == 2

(***************************************************************************)
(* Values.                                                                 *)
(***************************************************************************)
None == [kind |-> "none"]

Null == [kind |-> "null"]

Str(s) == [kind |-> "str", s |-> s]

Bool(b) == [kind |-> "bool", b |-> b]

Num(n) == [kind |-> "num", n |-> n]

List(elems) == [kind |-> "list", elems |-> elems]

Map(items) == [kind |-> "map", items |-> items]

IsMap(v) == v.kind = "map"

RECURSIVE HasKey(_, _)
HasKey(items, key) ==
    IF items = <<>> THEN FALSE
    ELSE Head(items)[1] = key \/ HasKey(Tail(items), key)

RECURSIVE Lookup(_, _, _)
Lookup(items, key, default) ==
    IF items = <<>> THEN default
    ELSE IF Head(items)[1] = key THEN Head(items)[2]
    ELSE Lookup(Tail(items), key, default)

Keys(items) == [i \in 1..Len(items) |-> items[i][1]]

KeySet(items) == {items[i][1] : i \in 1..Len(items)}

Range(s) == {s[i] : i \in 1..Len(s)}

(***************************************************************************)
(* Resource names and Python's ordering of str (by code point).            *)
(***************************************************************************)
Names ==
    {"google_compute_instance", "google_folder_organization_policy",
     "google_org_policy_policy", "google_org_policy_policy_v2",
     "x_google_org_policy_policy"}

CodePoints(n) ==
    CASE n = "google_compute_instance" ->
           <<103, 111, 111, 103, 108, 101, 95, 99, 111, 109, 112, 117, 116,
             101, 95, 105, 110, 115, 116, 97, 110, 99, 101>>
      [] n = "google_folder_organization_policy" ->
           <<103, 111, 111, 103, 108, 101, 95, 102, 111, 108, 100, 101, 114,
             95, 111, 114, 103, 97, 110, 105, 122, 97, 116, 105, 111, 110,
             95, 112, 111, 108, 105, 99, 121>>
      [] n = "google_org_policy_policy" ->
           <<103, 111, 111, 103, 108, 101, 95, 111, 114, 103, 95, 112, 111,
             108, 105, 99, 121, 95, 112, 111, 108, 105, 99, 121>>
      [] n = "google_org_policy_policy_v2" ->
           <<103, 111, 111, 103, 108, 101, 95, 111, 114, 103, 95, 112, 111,
             108, 105, 99, 121, 95, 112, 111, 108, 105, 99, 121, 95, 118,
             50>>
      [] n = "x_google_org_policy_policy" ->
           <<120, 95, 103, 111, 111, 103, 108, 101, 95, 111, 114, 103, 95,
             112, 111, 108, 105, 99, 121, 95, 112, 111, 108, 105, 99, 121>>
      [] n = "google_organization_policy" ->
           <<103, 111, 111, 103, 108, 101, 95, 111, 114, 103, 97, 110, 105,
             122, 97, 116, 105, 111, 110, 95, 112, 111, 108, 105, 99, 121>>
      [] n = "organization" ->
           <<111, 114, 103, 97, 110, 105, 122, 97, 116, 105, 111, 110>>
      [] n = "org_policy" ->
           <<111, 114, 103, 95, 112, 111, 108, 105, 99, 121>>

RECURSIVE SeqLess(_, _)
SeqLess(a, b) ==
    IF b = <<>> THEN FALSE
    ELSE IF a = <<>> THEN TRUE
    ELSE IF Head(a) # Head(b) THEN Head(a) < Head(b)
    ELSE SeqLess(Tail(a), Tail(b))

StrLess(a, b) == SeqLess(CodePoints(a), CodePoints(b))

RECURSIVE Insert(_, _)
Insert(x, s) ==
    IF s = <<>> THEN <<x>>
    ELSE IF StrLess(x, Head(s)) THEN <<x>> \o s
    ELSE <<Head(s)>> \o Insert(x, Tail(s))

RECURSIVE InsertionSort(_)
InsertionSort(s) ==
    IF s = <<>> THEN <<>> ELSE Insert(Head(s), InsertionSort(Tail(s)))

\* the names are processed in the iteration order of the set
sorted_Unsorted(iter) == iter

sorted(iter) == InsertionSort(iter)

\* every order in which the elements of a finite set can be enumerated
Orders(S) ==
    {s \in [1..Cardinality(S) -> S] : \A i, j \in DOMAIN s : i # j => s[i] # s[j]}

Ascending(s) == \A i \in 1..Len(s) - 1 : StrLess(s[i], s[i + 1])

(***************************************************************************)
(* Schema files (JSON).                                                    *)
(***************************************************************************)
Unreadable == [state |-> "unreadable"]

Malformed == [state |-> "malformed"]

Parsed(v) == [state |-> "parsed", data |-> v]

ProviderKeys ==
    <<"registry.terraform.io/hashicorp/google",
      "registry.opentofu.org/hashicorp/google",
      "registry.terraform.io/hashicorp/google-beta">>

Definition(n) == Map(<<<<"block", Str(n)>>>>)

\* a resource_schemas mapping with the given resource names, in that order
ResourceSchemas(names) == Map([i \in 1..Len(names) |-> <<names[i], Definition(names[i])>>])

Provider(rs) == Map(<<<<"resource_schemas", rs>>>>)

\* a provider_schemas mapping holding the given provider values in order
ProviderSchemas(values) == Map([i \in 1..Len(values) |-> <<ProviderKeys[i], values[i]>>])

SchemaDocument(values) == Map(<<<<"format_version", Str("1.0")>>,
                                <<"provider_schemas", ProviderSchemas(values)>>>>)

SeqsUpTo(S, n) == UNION {[1..k -> S] : k \in 0..n}

Values(items) == [i \in 1..Len(items) |-> items[i][2]]

endswith_json(filename) == filename.ext = ".json"

(***************************************************************************)
(* load_schemas.                                                           *)
(***************************************************************************)
\* the two nested for loops over one file's providers; names are added one
\* by one, so what was added before an exception stays in the set
RECURSIVE ScanProviders(_, _)
ScanProviders(values, acc) ==
    IF values = <<>> THEN [resources |-> acc, error |-> "none"]
    ELSE LET provider == Head(values) IN
         IF ~IsMap(provider)
         THEN [resources |-> acc, error |-> "AttributeError"]
         ELSE LET rs == Lookup(provider.items, "resource_schemas", Map(<<>>)) IN
              IF ~IsMap(rs)
              THEN [resources |-> acc, error |-> "AttributeError"]
              ELSE ScanProviders(Tail(values), acc \cup KeySet(rs.items))

\* the body of the try block for one file
LoadFile(content, acc) ==
    CASE content.state = "unreadable" -> [resources |-> acc, error |-> "OSError"]
      [] content.state = "malformed" -> [resources |-> acc, error |-> "JSONDecodeError"]
      [] OTHER ->
           LET data == content.data IN
           IF ~IsMap(data)
           THEN [resources |-> acc, error |-> "AttributeError"]
           ELSE LET ps == Lookup(data.items, "provider_schemas", Map(<<>>)) IN
                IF ~IsMap(ps)
                THEN [resources |-> acc, error |-> "AttributeError"]
                ELSE ScanProviders(Values(ps.items), acc)

\* the for loop over os.listdir(schema_dir), given the listing
RECURSIVE ScanListing(_, _, _)
ScanListing(listing, acc, printed) ==
    IF listing = <<>> THEN [resources |-> acc, printed |-> printed]
    ELSE LET file == Head(listing) IN
         IF ~endswith_json(file.name)
         THEN ScanListing(Tail(listing), acc, printed)
         ELSE LET r == LoadFile(file.content, acc) IN
              ScanListing(Tail(listing), r.resources,
                          IF r.error = "none" THEN printed
                          ELSE Append(printed, [msg |-> "Error loading",
                                                filename |-> file.name,
                                                error |-> r.error]))

load_schemas(dir, listing) ==
    IF ~dir.exists
    THEN [resources |-> {},
          printed |-> <<[msg |-> "Schema directory does not exist"]>>]
    ELSE ScanListing(listing, {}, <<>>)

(***************************************************************************)
(* The configuration file (YAML): a text is a sequence of lines            *)
(* [ind, key, val]; the block under a key is the run of deeper lines that  *)
(* follows it.                                                             *)
(***************************************************************************)
NoValue == [kind |-> "novalue"]

FlowEmpty == [kind |-> "flowempty"]

Line(ind, key, val) == [ind |-> ind, key |-> key, val |-> val]

\* number of leading lines indented deeper than ind
RECURSIVE BlockLen(_, _)
BlockLen(lines, ind) ==
    IF lines = <<>> \/ Head(lines).ind <= ind THEN 0
    ELSE 1 + BlockLen(Tail(lines), ind)

RECURSIVE ParseItems(_, _)
ParseItems(lines, ind) ==
    IF lines = <<>> THEN <<>>
    ELSE LET l == Head(lines)
             n == BlockLen(Tail(lines), ind)
             block == SubSeq(lines, 2, n + 1)
             rest == SubSeq(lines, n + 2, Len(lines))
             val == IF l.val = FlowEmpty THEN Map(<<>>)
                    ELSE IF l.val # NoValue THEN l.val
                    ELSE IF block = <<>> THEN Null
                    ELSE Map(ParseItems(block, ind + 2))
         IN <<<<l.key, val>>>> \o ParseItems(rest, ind)

RECURSIVE DumpItems(_, _)
DumpItems(items, ind) ==
    IF items = <<>> THEN <<>>
    ELSE LET key == Head(items)[1]
             val == Head(items)[2]
             here == IF IsMap(val)
                     THEN IF val.items = <<>>
                          THEN <<Line(ind, key, FlowEmpty)>>
                          ELSE <<Line(ind, key, NoValue)>> \o DumpItems(val.items, ind + 2)
                     ELSE IF val = Null THEN <<Line(ind, key, NoValue)>>
                     ELSE <<Line(ind, key, val)>>
         IN here \o DumpItems(Tail(items), ind)

\* yaml.load: an empty document loads as None
yaml_load(text) == IF text = <<>> THEN None ELSE Map(ParseItems(text, 0))

yaml_dump(doc) == DumpItems(doc.items, 0)

(***************************************************************************)
(* update_config.                                                          *)
(***************************************************************************)
SetItem(items, key, val) ==
    IF HasKey(items, key)
    THEN [i \in 1..Len(items) |-> IF items[i][1] = key THEN <<key, val>> ELSE items[i]]
    ELSE Append(items, <<key, val>>)

\* the name is prefixed with the special name
startswith(name, prefix) ==
    /\ Len(CodePoints(prefix)) <= Len(CodePoints(name))
    /\ SubSeq(CodePoints(name), 1, Len(CodePoints(prefix))) = CodePoints(prefix)

\* the special case is taken for every name that starts with the special name
NewEntry_StartsWith(res) ==
    LET special == startswith(res, "google_org_policy_policy") IN
    Map(<<<<"description", IF special THEN Str("Organization Policy V2")
                           ELSE Str("Auto-generated entry for " \o res)>>,
          <<"import", Bool(FALSE)>>,
          <<"asset_type", IF special THEN Str("orgpolicy.googleapis.com/Policy")
                          ELSE Str("TODO/UNKNOWN")>>,
          <<"content_type", Str("RESOURCE")>>,
          <<"derive_yaml_key_from", Str("name")>>>>)

NewEntry(res) ==
    LET special == res = "google_org_policy_policy" IN
    Map(<<<<"description", IF special THEN Str("Organization Policy V2")
                           ELSE Str("Auto-generated entry for " \o res)>>,
          <<"import", Bool(FALSE)>>,
          <<"asset_type", IF special THEN Str("orgpolicy.googleapis.com/Policy")
                          ELSE Str("TODO/UNKNOWN")>>,
          <<"content_type", Str("RESOURCE")>>,
          <<"derive_yaml_key_from", Str("name")>>>>)

\* the loop without the membership test: an existing entry is replaced
RECURSIVE MergeLoop_Overwrite(_, _, _, _)
MergeLoop_Overwrite(order, items, count, printed) ==
    IF order = <<>> THEN [items |-> items, added_count |-> count, printed |-> printed]
    ELSE LET res == Head(order) IN
         MergeLoop_Overwrite(Tail(order), SetItem(items, res, NewEntry(res)),
                             IF HasKey(items, res) THEN count ELSE count + 1,
                             Append(printed, [msg |-> "Adding new resource", res |-> res]))

\* the loop with added_count incremented outside the if
RECURSIVE MergeLoop_CountAll(_, _, _, _)
MergeLoop_CountAll(order, items, count, printed) ==
    IF order = <<>> THEN [items |-> items, added_count |-> count, printed |-> printed]
    ELSE LET res == Head(order) IN
         IF ~HasKey(items, res)
         THEN MergeLoop_CountAll(Tail(order), SetItem(items, res, NewEntry(res)), count + 1,
                                 Append(printed, [msg |-> "Adding new resource", res |-> res]))
         ELSE MergeLoop_CountAll(Tail(order), items, count + 1, printed)

\* the for loop over sorted(schema_resources) on a mapping current_resources
RECURSIVE MergeLoop(_, _, _, _)
MergeLoop(order, items, count, printed) ==
    IF order = <<>> THEN [items |-> items, added_count |-> count, printed |-> printed]
    ELSE LET res == Head(order) IN
         IF ~HasKey(items, res)
         THEN MergeLoop(Tail(order), SetItem(items, res, NewEntry(res)), count + 1,
                        Append(printed, [msg |-> "Adding new resource", res |-> res]))
         ELSE MergeLoop(Tail(order), items, count, printed)

\* update_config from yaml.load to the end of the for loop; iter is the
\* order in which the set schema_resources is iterated
MergeConfig(doc, iter) ==
    IF ~IsMap(doc)
    THEN [config |-> doc, added_count |-> 0, printed |-> <<>>, raised |-> "TypeError"]
    ELSE LET ensured == IF ~HasKey(doc.items, "resource_types")
                        THEN Map(SetItem(doc.items, "resource_types", Map(<<>>)))
                        ELSE doc
             current_resources == Lookup(ensured.items, "resource_types", Null)
             order == sorted(iter)
         IN IF order = <<>>
            THEN [config |-> ensured, added_count |-> 0, printed |-> <<>>,
                  raised |-> "none"]
            ELSE IF ~IsMap(current_resources)
            THEN [config |-> ensured, added_count |-> 0, printed |-> <<>>,
                  raised |-> "TypeError"]
            ELSE LET m == MergeLoop(order, current_resources.items, 0, <<>>) IN
                 [config |-> Map(SetItem(ensured.items, "resource_types", Map(m.items))),
                  added_count |-> m.added_count, printed |-> m.printed,
                  raised |-> "none"]

(***************************************************************************)
(* Inputs of the updater: schema directories and configuration files.      *)
(***************************************************************************)
\* names used in the directories that mix valid and failing files
LoadNames == {"google_compute_instance", "google_org_policy_policy"}

MixedProviderValues ==
    {Null, Provider(List(<<>>))}
        \cup {Provider(ResourceSchemas(<<n>>)) : n \in LoadNames}

MixedContents ==
    {Unreadable, Malformed, Parsed(List(<<>>)), Parsed(Map(<<>>)),
     Parsed(Map(<<<<"provider_schemas", Null>>>>)),
     Parsed(SchemaDocument(<<Map(<<>>)>>))}
        \cup {Parsed(SchemaDocument(v)) : v \in SeqsUpTo(MixedProviderValues, MaxProviders)}

MixedFiles == {[ext |-> ".json", content |-> c] : c \in MixedContents}

\* a file that loads, with one provider and one resource name
ValidFile(n) ==
    [ext |-> ".json",
     content |-> Parsed(SchemaDocument(<<Provider(ResourceSchemas(<<n>>))>>))]

\* files found next to a file of MixedFiles
ExtraFiles ==
    {ValidFile(n) : n \in LoadNames}
        \cup {[ext |-> ".json", content |-> Malformed],
              [ext |-> ".txt",
               content |-> Parsed(SchemaDocument(
                   <<Provider(ResourceSchemas(<<"google_folder_organization_policy">>))>>))]}

\* a directory holding the given files; the i-th file is named <i><ext>
Directory(fs) ==
    [exists |-> TRUE,
     files |-> [i \in 1..Len(fs) |->
                   [name |-> [stem |-> i, ext |-> fs[i].ext], content |-> fs[i].content]]]

MissingDirectory == [exists |-> FALSE, files |-> <<>>]

MixedDirectories ==
    {Directory(<<f>> \o fs) : f \in MixedFiles, fs \in SeqsUpTo(ExtraFiles, MaxFiles - 1)}

\* directories of up to MaxFiles files that load, one per resource name
ValidDirectories ==
    {Directory([i \in DOMAIN ns |-> ValidFile(ns[i])]) :
        ns \in {s \in SeqsUpTo(Names, MaxFiles) :
                   \A i \in 1..Len(s) - 1 : StrLess(s[i], s[i + 1])}}

CustomEntry ==
    Map(<<<<"description", Str("Compute instance")>>,
          <<"import", Bool(TRUE)>>,
          <<"asset_type", Str("compute.googleapis.com/Instance")>>,
          <<"content_type", Str("RESOURCE")>>,
          <<"derive_yaml_key_from", Str("name")>>>>)

PartialEntry == Map(<<<<"import", Bool(TRUE)>>>>)

PreEntries == {CustomEntry, PartialEntry}

\* names that the configuration file may already hold
PreNames ==
    {"google_compute_instance", "google_org_policy_policy", "x_google_org_policy_policy"}

\* resource_types mappings with up to MaxPre entries under distinct keys
PreItems ==
    {[i \in DOMAIN keys |-> <<keys[i], e>>] :
        keys \in {ks \in SeqsUpTo(PreNames, MaxPre) :
                     \A i, j \in DOMAIN ks : i # j => ks[i] # ks[j]},
        e \in PreEntries}

ResourceTypesValues == {Null} \cup {Map(items) : items \in PreItems}

VersionItem == <<"version", Str("1")>>

Documents ==
    {<<VersionItem>>}
        \cup UNION {{<<<<"resource_types", rt>>>>,
                     <<VersionItem, <<"resource_types", rt>>>>,
                     <<<<"resource_types", rt>>, VersionItem>>} : rt \in ResourceTypesValues}

MissingConfig == [exists |-> FALSE, text |-> <<>>]

ConfigFile(text) == [exists |-> TRUE, text |-> text]

ConfigFiles == {MissingConfig, ConfigFile(<<>>)} \cup {ConfigFile(DumpItems(d, 0)) : d \in Documents}

FewConfigFiles ==
    {MissingConfig,
     ConfigFile(DumpItems(<<<<"resource_types",
                             Map(<<<<"google_compute_instance", CustomEntry>>>>)>>>>, 0))}

(***************************************************************************)
(* The updater: main() runs load_schemas, then update_config.              *)
(***************************************************************************)
InspectorIdle ==
    /\ insp_file = [state |-> "none"]
    /\ insp_pc = "idle"
    /\ insp_schemas = None
    /\ insp_out = <<>>
    /\ insp_writes = 0

Init ==
    /\ \/ /\ schema_dir \in MixedDirectories \cup {MissingDirectory}
          /\ config_file \in FewConfigFiles
       \/ /\ schema_dir \in ValidDirectories \cup {MissingDirectory}
          /\ config_file \in ConfigFiles
    /\ pc = "load"
    /\ run = 1
    /\ resources = {}
    /\ loaded = None
    /\ config = None
    /\ added_count = 0
    /\ writes = 0
    /\ raised = "none"
    /\ out = <<>>
    /\ InspectorIdle

\* main, lines 95-96: resources = load_schemas(args.schema_dir)
LoadSchemas ==
    /\ pc = "load"
    /\ \E listing \in Orders(Range(schema_dir.files)) :
          LET r == load_schemas(schema_dir, listing) IN
          /\ resources' = r.resources
          /\ out' = out \o r.printed
                        \o <<[msg |-> "Loaded", n |-> Cardinality(r.resources)]>>
    /\ pc' = "update"
    /\ UNCHANGED <<schema_dir, config_file, run, loaded, config, added_count,
                   writes, raised>>
    /\ UNCHANGED inspector_vars

\* update_config without the os.path.exists test: open raises
UpdateConfig_NoExistsCheck ==
    /\ pc = "update"
    /\ IF ~config_file.exists
       THEN /\ raised' = "FileNotFoundError"
            /\ pc' = "crashed"
            /\ UNCHANGED <<config_file, loaded, config, added_count, writes, out>>
       ELSE \E iter \in Orders(resources) :
               LET doc == yaml_load(config_file.text)
                   m == MergeConfig(doc, iter)
               IN /\ loaded' = doc
                  /\ config' = m.config
                  /\ added_count' = m.added_count
                  /\ raised' = m.raised
                  /\ IF m.raised # "none"
                     THEN /\ pc' = "crashed"
                          /\ out' = out \o m.printed
                          /\ UNCHANGED <<config_file, writes>>
                     ELSE /\ pc' = "done"
                          /\ IF m.added_count > 0
                             THEN /\ out' = out \o m.printed
                                        \o <<[msg |-> "Added", n |-> m.added_count]>>
                                  /\ config_file' = ConfigFile(yaml_dump(m.config))
                                  /\ writes' = writes + 1
                             ELSE /\ out' = out \o m.printed
                                        \o <<[msg |-> "No new resources found in schemas"]>>
                                  /\ UNCHANGED <<config_file, writes>>
    /\ UNCHANGED <<schema_dir, run, resources>>
    /\ UNCHANGED inspector_vars

\* main, line 98: update_config(args.config_file, resources)
UpdateConfig ==
    /\ pc = "update"
    /\ IF ~config_file.exists
       THEN /\ out' = Append(out, [msg |-> "Config file does not exist"])
            /\ pc' = "done"
            /\ UNCHANGED <<config_file, loaded, config, added_count, writes, raised>>
       ELSE \E iter \in Orders(resources) :
               LET doc == yaml_load(config_file.text)
                   m == MergeConfig(doc, iter)
               IN /\ loaded' = doc
                  /\ config' = m.config
                  /\ added_count' = m.added_count
                  /\ raised' = m.raised
                  /\ IF m.raised # "none"
                     THEN /\ pc' = "crashed"
                          /\ out' = out \o m.printed
                          /\ UNCHANGED <<config_file, writes>>
                     ELSE /\ pc' = "done"
                          /\ IF m.added_count > 0
                             THEN /\ out' = out \o m.printed
                                        \o <<[msg |-> "Added", n |-> m.added_count]>>
                                  /\ config_file' = ConfigFile(yaml_dump(m.config))
                                  /\ writes' = writes + 1
                             ELSE /\ out' = out \o m.printed
                                        \o <<[msg |-> "No new resources found in schemas"]>>
                                  /\ UNCHANGED <<config_file, writes>>
    /\ UNCHANGED <<schema_dir, run, resources>>
    /\ UNCHANGED inspector_vars

\* the script is invoked again with the same arguments
Rerun ==
    /\ pc \in {"done", "crashed"}
    /\ run < MaxRuns
    /\ run' = run + 1
    /\ pc' = "load"
    /\ resources' = {}
    /\ loaded' = None
    /\ config' = None
    /\ added_count' = 0
    /\ raised' = "none"
    /\ out' = <<>>
    /\ UNCHANGED <<schema_dir, config_file, writes>>
    /\ UNCHANGED inspector_vars

Next == LoadSchemas \/ UpdateConfig \/ Rerun

Spec == Init /\ [][Next]_vars

(***************************************************************************)
(* inspect_schema.py.                                                      *)
(***************************************************************************)
MaxResources == 2

Missing == [state |-> "missing"]

Raise(exc) == [kind |-> "raise", exc |-> exc]

IsRaise(v) == v.kind = "raise"

AltKey == "registry.opentofu.org/hashicorp/google"

StdKey == "registry.terraform.io/hashicorp/google"

target == "google_organization_policy"

\* dict.get(key, default); any other JSON value has no attribute get
Get(v, key, default) ==
    IF IsRaise(v) THEN v
    ELSE IF IsMap(v) THEN Lookup(v.items, key, default)
    ELSE Raise("AttributeError")

\* data.get("provider_schemas", {}).get(key, {}).get("resource_schemas", {})
ProviderPath(data, key) ==
    Get(Get(Get(data, "provider_schemas", Map(<<>>)), key, Map(<<>>)),
        "resource_schemas", Map(<<>>))

\* Python truth value of a JSON value
Truthy(v) ==
    CASE v.kind = "map" -> v.items # <<>>
      [] v.kind = "list" -> v.elems # <<>>
      [] v.kind = "num" -> v.n # 0
      [] v.kind = "bool" -> v.b
      [] v.kind = "str" -> v.s # ""
      [] OTHER -> FALSE

HasLen(v) == v.kind \in {"map", "list"}

len(v) == IF v.kind = "map" THEN Len(v.items) ELSE Len(v.elems)

\* target in schemas, for a mapping or a list
Contains(v, key) ==
    IF v.kind = "map" THEN HasKey(v.items, key)
    ELSE \E i \in 1..Len(v.elems) : v.elems[i] = Str(key)

\* sub in s, on the code points of the two strings
IsSubstring(sub, s) ==
    LET a == CodePoints(sub)
        b == CodePoints(s)
    IN \E i \in 0..(Len(b) - Len(a)) : SubSeq(b, i + 1, i + Len(a)) = a

RECURSIVE SimilarKeys(_)
SimilarKeys(keys) ==
    IF keys = <<>> THEN <<>>
    ELSE (IF IsSubstring("organization", Head(keys)) \/ IsSubstring("org_policy", Head(keys))
          THEN <<Head(keys)>> ELSE <<>>) \o SimilarKeys(Tail(keys))

\* the classes of the exceptions the try block can raise; all derive from
\* Exception
ExceptionClasses == {"FileNotFoundError", "JSONDecodeError", "AttributeError", "TypeError"}

\* an except clause for OSError only
Caught_OnlyOSError(exc) == exc = "FileNotFoundError"

Caught(exc) == exc \in ExceptionClasses

\* the fallback taken only when the alternate-registry value is an empty
\* default, that is when its key-path is absent
SelectSchemas_FirstPresent(data) ==
    LET alt == ProviderPath(data, AltKey)
        ps == Get(data, "provider_schemas", Map(<<>>))
        present == /\ IsMap(ps)
                   /\ HasKey(ps.items, AltKey)
                   /\ IsMap(Lookup(ps.items, AltKey, Null))
                   /\ HasKey(Lookup(ps.items, AltKey, Null).items, "resource_schemas")
    IN IF IsRaise(alt) THEN alt
       ELSE IF ~present THEN ProviderPath(data, StdKey)
       ELSE alt

\* lines 10-13: the mapping bound to schemas, or the exception raised
SelectSchemas(data) ==
    LET alt == ProviderPath(data, AltKey) IN
    IF IsRaise(alt) THEN alt
    ELSE IF ~Truthy(alt) THEN ProviderPath(data, StdKey)
    ELSE alt

\* lines 15-25, once schemas is bound
Report(schemas) ==
    IF ~HasLen(schemas)
    THEN [printed |-> <<>>, error |-> "TypeError"]
    ELSE LET found == <<[msg |-> "Found", n |-> len(schemas)]>> IN
         IF Contains(schemas, target)
         THEN IF IsMap(schemas)
              THEN [printed |-> found \o <<[msg |-> "FOUND", target |-> target],
                                           [msg |-> "dumps",
                                            value |-> Lookup(schemas.items, target, Null)]>>,
                    error |-> "none"]
              ELSE [printed |-> found \o <<[msg |-> "FOUND", target |-> target]>>,
                    error |-> "TypeError"]
         ELSE IF IsMap(schemas)
              THEN [printed |-> found \o <<[msg |-> "NOT FOUND", target |-> target],
                                           [msg |-> "Similar keys",
                                            keys |-> SimilarKeys(Keys(schemas.items))]>>,
                    error |-> "none"]
              ELSE [printed |-> found \o <<[msg |-> "NOT FOUND", target |-> target]>>,
                    error |-> "AttributeError"]

\* the try block, lines 7-25
TryBlock(file) ==
    CASE file.state = "missing" ->
           [printed |-> <<>>, schemas |-> None, error |-> "FileNotFoundError"]
      [] file.state = "malformed" ->
           [printed |-> <<>>, schemas |-> None, error |-> "JSONDecodeError"]
      [] OTHER ->
           LET schemas == SelectSchemas(file.data) IN
           IF IsRaise(schemas)
           THEN [printed |-> <<>>, schemas |-> None, error |-> schemas.exc]
           ELSE LET r == Report(schemas) IN
                [printed |-> r.printed,
                 schemas |-> IF r.printed = <<>> THEN None ELSE schemas,
                 error |-> r.error]

(***************************************************************************)
(* Inputs of the inspector.                                                *)
(***************************************************************************)
Absent == [kind |-> "absent"]

InspectorNames == {"google_organization_policy", "google_org_policy_policy",
                   "google_compute_instance"}

NameSeqs ==
    {ns \in SeqsUpTo(InspectorNames, MaxResources) :
        \A i, j \in DOMAIN ns : i # j => ns[i] # ns[j]}

NotMappings == {Null, List(<<>>), List(<<Str(target)>>), Num(5)}

ResourceSchemasValues == {ResourceSchemas(ns) : ns \in NameSeqs} \cup NotMappings

\* the items of a mapping, leaving out the keys whose value is Absent
RECURSIVE Present(_)
Present(items) ==
    IF items = <<>> THEN <<>>
    ELSE (IF Head(items)[2] = Absent THEN <<>> ELSE <<Head(items)>>) \o Present(Tail(items))

ProviderValues ==
    {Absent, Null, List(<<>>), Map(<<>>)} \cup {Provider(rs) : rs \in ResourceSchemasValues}

ProviderSchemasValues ==
    {Absent, Null, List(<<>>)}
        \cup {Map(Present(<<<<StdKey, std>>, <<AltKey, alt>>>>)) :
                 std \in ProviderValues, alt \in ProviderValues}

InspectorFiles ==
    {Missing, Malformed, Parsed(Null), Parsed(List(<<>>))}
        \cup {Parsed(Map(Present(<<<<"format_version", Str("1.0")>>,
                                   <<"provider_schemas", ps>>>>))) :
                 ps \in ProviderSchemasValues}

UpdaterIdle ==
    /\ schema_dir = MissingDirectory
    /\ config_file = MissingConfig
    /\ pc = "idle"
    /\ run = 0
    /\ resources = {}
    /\ loaded = None
    /\ config = None
    /\ added_count = 0
    /\ writes = 0
    /\ raised = "none"
    /\ out = <<>>

InitInspector ==
    /\ insp_file \in InspectorFiles
    /\ insp_pc = "start"
    /\ insp_schemas = None
    /\ insp_out = <<>>
    /\ insp_writes = 0
    /\ UpdaterIdle

\* the whole script: the try block and the except clause
Inspect ==
    /\ insp_pc = "start"
    /\ LET r == TryBlock(insp_file) IN
       /\ insp_schemas' = r.schemas
       /\ IF r.error = "none"
          THEN /\ insp_out' = r.printed
               /\ insp_pc' = "done"
          ELSE IF Caught(r.error)
          THEN /\ insp_out' = r.printed \o <<[msg |-> "Error", error |-> r.error]>>
               /\ insp_pc' = "done"
          ELSE /\ insp_out' = r.printed
               /\ insp_pc' = "crashed"
    /\ UNCHANGED <<insp_file, insp_writes>>
    /\ UNCHANGED updater_vars

NextInspector == Inspect

SpecInspector == InitInspector /\ [][NextInspector]_vars

(***************************************************************************)
(* Properties.                                                             *)
(***************************************************************************)
\* the items of the resource_types mapping of a document, <<>> when the
\* document has no such mapping
RtItems(doc) ==
    IF ~IsMap(doc) THEN <<>>
    ELSE LET rt == Lookup(doc.items, "resource_types", Null) IN
         IF IsMap(rt) THEN rt.items ELSE <<>>

\* the items whose key is in keys, in their order
RECURSIVE Restrict(_, _)
Restrict(items, keys) ==
    IF items = <<>> THEN <<>>
    ELSE (IF Head(items)[1] \in keys THEN <<Head(items)>> ELSE <<>>)
             \o Restrict(Tail(items), keys)

Finished == pc \in {"done", "crashed"}

\* the items update_config inserted: those under a key that was not loaded
Inserted == Restrict(RtItems(config), KeySet(RtItems(config)) \ KeySet(RtItems(loaded)))

\* C1: after update_config, every key that resource_types held when the file
\* was loaded is still there with the same entry and in the same relative
\* order, both in the document in memory and in the file as it now loads.
C1_NonDestructiveMerge ==
    (Finished /\ config_file.exists) =>
        LET pre == RtItems(loaded) IN
        /\ Restrict(RtItems(config), KeySet(pre)) = pre
        /\ Restrict(RtItems(yaml_load(config_file.text)), KeySet(pre)) = pre

C1_Witness ==
    /\ pc = "done"
    /\ Len(RtItems(loaded)) = 2
    /\ added_count = 2
    /\ writes = 1

\* C2: a later run over the same inputs adds nothing, does not open the
\* configuration file for writing and leaves it as the run before left it.
C2_Idempotence ==
    [][(run >= 2 /\ pc = "update") =>
          (added_count' = 0 /\ writes' = writes /\ config_file' = config_file)]_vars

C2_Witness ==
    /\ run = 2
    /\ pc = "done"
    /\ writes = 1
    /\ added_count = 0
    /\ resources # {}

\* C3: update_config writes the file exactly when some name of the input
\* set was not already a key of resource_types.
C3_WritesIffNameMissing ==
    (run = 1 /\ Finished /\ config_file.exists) =>
        (writes = 1 <=> \E n \in resources : n \notin KeySet(RtItems(loaded)))

\* C4: load_schemas returns exactly the union of the names of the .json
\* files that load without error.
C4_UnionOfValidFiles ==
    (pc = "update" /\ schema_dir.exists) =>
        resources = UNION {LoadFile(f.content, {}).resources :
                              f \in {g \in Range(schema_dir.files) :
                                        /\ g.name.ext = ".json"
                                        /\ LoadFile(g.content, {}).error = "none"}}

\* C5: every inserted entry has the five placeholder fields; only the name
\* google_org_policy_policy gets the organization policy asset type and
\* description.
C5_Expected(name, entry) ==
    /\ IsMap(entry)
    /\ Keys(entry.items) =
          <<"description", "import", "asset_type", "content_type", "derive_yaml_key_from">>
    /\ entry.items[2][2] = Bool(FALSE)
    /\ entry.items[4][2] = Str("RESOURCE")
    /\ entry.items[5][2] = Str("name")
    /\ IF name = "google_org_policy_policy"
       THEN /\ entry.items[3][2] = Str("orgpolicy.googleapis.com/Policy")
            /\ entry.items[1][2] = Str("Organization Policy V2")
       ELSE /\ entry.items[3][2] = Str("TODO/UNKNOWN")
            /\ entry.items[1][2] = Str("Auto-generated entry for " \o name)

C5_PlaceholderContent ==
    Finished =>
        /\ \A i \in DOMAIN Inserted : C5_Expected(Inserted[i][1], Inserted[i][2])
        /\ writes > 0 =>
              LET now == RtItems(yaml_load(config_file.text)) IN
              \A i \in DOMAIN Inserted :
                  C5_Expected(Inserted[i][1], Lookup(now, Inserted[i][1], Null))

C5_Witness ==
    /\ pc = "done"
    /\ KeySet(Inserted) = {"google_org_policy_policy", "google_org_policy_policy_v2"}

\* the value at provider_schemas / key / resource_schemas of the inspected
\* document, Absent when a step of the path is missing or not a mapping
C6_AtPath(key) ==
    IF insp_file.state # "parsed" \/ ~IsMap(insp_file.data) THEN Absent
    ELSE LET ps == Lookup(insp_file.data.items, "provider_schemas", Absent) IN
         IF ~IsMap(ps) THEN Absent
         ELSE LET p == Lookup(ps.items, key, Absent) IN
              IF ~IsMap(p) THEN Absent
              ELSE Lookup(p.items, "resource_schemas", Absent)

C6_FoundPrinted == insp_pc = "done" /\ insp_out # <<>> /\ insp_out[1].msg = "Found"

\* C6 as stated: the alternate-registry mapping is used whenever its
\* key-path is present, even if it is empty, and the count is its size.
C6_FirstPresentUsed ==
    (C6_FoundPrinted /\ IsMap(C6_AtPath(AltKey))) =>
        /\ insp_schemas = C6_AtPath(AltKey)
        /\ insp_out[1].n = Len(C6_AtPath(AltKey).items)

\* C6, amended: the alternate-registry mapping is used when it is present
\* and not empty; otherwise the standard-registry mapping is used when its
\* key-path is present, and an empty mapping when it is not. The count is
\* the size of the mapping so chosen.
C6_FirstNonEmptyUsed ==
    (C6_FoundPrinted /\ IsMap(insp_schemas)) =>
        LET alt == C6_AtPath(AltKey)
            std == C6_AtPath(StdKey)
        IN /\ insp_schemas =
                 IF IsMap(alt) /\ alt.items # <<>> THEN alt
                 ELSE IF std # Absent THEN std
                 ELSE Map(<<>>)
           /\ insp_out[1].n = Len(insp_schemas.items)

C6_Witness ==
    /\ C6_FoundPrinted
    /\ C6_AtPath(AltKey) = Map(<<>>)
    /\ IsMap(C6_AtPath(StdKey))
    /\ insp_out[1].n = 2

\* C7: a missing schema directory gives a diagnostic and the empty set and
\* the run goes on to update_config, which then writes nothing; a missing
\* configuration file gives a diagnostic, no exception and no file.
C7_MissingPathTolerance ==
    /\ (~schema_dir.exists /\ pc \in {"update", "done", "crashed"}) =>
          /\ resources = {}
          /\ out[1].msg = "Schema directory does not exist"
          /\ writes = 0
    /\ (~schema_dir.exists /\ Finished) => added_count = 0
    /\ ~config_file.exists =>
          /\ writes = 0
          /\ pc # "crashed"
          /\ raised = "none"
          /\ pc = "done" => out[Len(out)].msg = "Config file does not exist"

C7_Witness ==
    /\ pc = "done"
    /\ ~schema_dir.exists
    /\ config_file.exists
    /\ RtItems(loaded) # <<>>

C8_ErrorLines == {i \in DOMAIN insp_out : insp_out[i].msg = "Error"}

C8_Completed ==
    /\ insp_out # <<>>
    /\ insp_out[Len(insp_out)].msg \in {"dumps", "Similar keys"}
    /\ C8_ErrorLines = {}

C8_Failed ==
    /\ insp_out # <<>>
    /\ C8_ErrorLines = {Len(insp_out)}

\* C8: no exception leaves the inspector; a run either completes its report
\* or ends with exactly one Error line, which it does for a missing file,
\* malformed JSON and a document that is not a mapping; no file is written.
C8_FailureSemantics ==
    /\ insp_pc # "crashed"
    /\ insp_writes = 0
    /\ insp_pc = "done" =>
          /\ C8_Completed \/ C8_Failed
          /\ (insp_file.state \in {"missing", "malformed"}) => C8_Failed
          /\ (insp_file.state = "parsed" /\ ~IsMap(insp_file.data)) => C8_Failed
          /\ (insp_file.state = "parsed" /\ IsMap(insp_file.data)
                /\ ~IsMap(Lookup(insp_file.data.items, "provider_schemas", Map(<<>>))))
                => C8_Failed

C8_Witness ==
    /\ insp_pc = "done"
    /\ C8_Failed
    /\ Len(insp_out) = 3
    /\ insp_out[3].error = "AttributeError"

\* C9: the new entries come after all the keys that were loaded, in
\* ascending order of name, and the resulting document is the same for
\* every directory listing order and every iteration order of the set.
C9_DeterministicOrdering ==
    (pc = "done" /\ config_file.exists) =>
        LET pre == RtItems(loaded)
            post == RtItems(config)
            new == SubSeq(post, Len(pre) + 1, Len(post))
        IN /\ SubSeq(post, 1, Len(pre)) = pre
           /\ Ascending(Keys(new))
           /\ KeySet(new) = resources \ KeySet(pre)
           /\ \A listing \in Orders(Range(schema_dir.files)) :
                 \A iter \in Orders(load_schemas(schema_dir, listing).resources) :
                    MergeConfig(loaded, iter).config = config

C9_Witness ==
    /\ pc = "done"
    /\ Len(RtItems(loaded)) > 0
    /\ added_count = 2
    /\ RtItems(yaml_load(config_file.text)) = RtItems(config)

\* C10: for every configuration file that exists, update_config does not
\* raise and ends with a resource_types mapping that holds every input name.
C10_ResourceTypesEnsured ==
    (Finished /\ config_file.exists) =>
        /\ raised = "none"
        /\ IsMap(config)
        /\ IsMap(Lookup(config.items, "resource_types", Null))
        /\ resources \subseteq KeySet(RtItems(config))

====
